---- MODULE Spec2Model ----
(***************************************************************************)
(* Model of src/app.py: a Flask service that sequences calls to a record   *)
(* store (Supabase REST) and a face service (AWS Rekognition).             *)
(*                                                                         *)
(* The main thread runs create_collection and then app.run; after that      *)
(* every worker thread handles one HTTP request at a time.  Each blocking  *)
(* outbound call of a handler is one step, so that concurrent requests      *)
(* interleave exactly where the code can be pre-empted by another request. *)
(* The two remote services are the environment: every store request either *)
(* succeeds or returns HTTP >= 400, every face-service request either      *)
(* succeeds or raises ClientError.                                         *)
(***************************************************************************)
EXTENDS Integers, Sequences, FiniteSets, TLC

VARIABLES
    students,       \* rows of the store's students table
    attendance,     \* rows of the store's attendance table, oldest first
    collections,    \* CollectionIds known to the face service
    faces,          \* faces enrolled in the collection
    pc,             \* position of the main thread and of every worker
    req,            \* the request a worker is handling
    loc,            \* a worker's local variables (student, result, ...)
    returned,       \* the request that returned in the latest step, with its response
    cc,             \* bookkeeping of a thread's create_collection call
    calls,          \* outbound calls made so far for the current request
    sent,           \* the enrol or search request issued in the latest step
    hist            \* history counters over the whole run

vars == <<students, attendance, collections, faces, pc, req, loc, cc, calls, sent, returned, hist>>

---------------------------------------------------------------------------
(* Bounds of the model *)

MaxRequests == 2

\* The main thread and the worker threads of the server.  Two workers give
\* every interleaving of two requests; the steps of a request conflict with
\* those of another request pairwise only.
Main == 0
Workers == {1, 2}
Threads == {Main} \cup Workers

(* Inputs *)

RollNumbers == {"R1", "R2"}
Similarities == {85, 93}
Limits == {1}
\* how many faces the face service may detect in one image
DetectedCounts == {0, 1}
\* image strings, as sequences of characters: no data-URI prefix, a prefix,
\* and a string with two commas
Images == { <<"A", "A">>,
            <<"d", ",", "A", "A">>,
            <<"d", ",", "A", ",", "B">> }

(* Program constants *)

collection_id == "attendance_collection"
required_fields == <<"name", "branch", "year", "roll_number", "email">>
DefaultLimit == 50
DefaultThreshold == 80
MaxFaces == 5

---------------------------------------------------------------------------
(* Python values *)

\* supabase_request returns None on HTTP status >= 400, else the parsed rows
None == [none |-> TRUE, rows |-> <<>>]
Rows(rs) == [none |-> FALSE, rows |-> rs]

\* truth value of a supabase_request result: None and [] are falsy
Truthy(r) == ~r.none /\ Len(r.rows) > 0

NoRequest == [endpoint |-> "none"]
NoResponse == [code |-> 0]
NoCall == [active |-> FALSE, second |-> FALSE, afterSuccess |-> FALSE, listed |-> "none", issued |-> FALSE,
           done |-> FALSE, result |-> [status |-> "error", message |-> "none"]]

RECURSIVE SetToSeq(_)
SetToSeq(S) ==
    IF S = {} THEN <<>>
    ELSE LET x == CHOOSE y \in S : TRUE IN <<x>> \o SetToSeq(S \ {x})

Min(a, b) == IF a < b THEN a ELSE b

Range(s) == { s[i] : i \in 1..Len(s) }

---------------------------------------------------------------------------
(* The data-URI prefix strip of both workflows:                            *)
(*   data['image'].split(',')[1] if ',' in data['image'] else data['image'] *)

HasComma(s) == \E i \in 1..Len(s) : s[i] = ","

FirstComma(s) == CHOOSE i \in 1..Len(s) : s[i] = "," /\ \A j \in 1..(i-1) : s[j] # ","

\* str.split(','): the pieces between commas
RECURSIVE split(_)
split(s) ==
    IF ~HasComma(s) THEN <<s>>
    ELSE <<SubSeq(s, 1, FirstComma(s) - 1)>> \o split(SubSeq(s, FirstComma(s) + 1, Len(s)))

image_payload(image) == IF HasComma(image) THEN split(image)[2] ELSE image

---------------------------------------------------------------------------
(* Record store (Supabase) operations: what each request carries and what  *)
(* the store answers when it accepts the request.                          *)

StudentIds == { s.id : s \in students }

\* the store assigns identifiers
NextStudentId == "S" \o ToString(Cardinality(students) + 1)

\* GET /rest/v1/students?select=*
get_students == Rows(SetToSeq(students))

\* GET /rest/v1/students?id=eq.{student_id}&select=*
get_student_by_id(student_id) ==
    Rows(SetToSeq({ s \in students : s.id = student_id }))

\* GET /rest/v1/students?roll_number=eq.{roll_number}&select=*
get_student_by_roll_number(roll_number) ==
    Rows(SetToSeq({ s \in students : s.roll_number = roll_number }))

\* body of POST /rest/v1/students
create_student(name, branch, year, roll_number, email) ==
    [name |-> name, branch |-> branch, year |-> year,
     roll_number |-> roll_number, email |-> email]

\* a variant that stores the search threshold instead of the similarity
record_attendance_threshold(student_id, confidence) ==
    [student_id |-> student_id, confidence |-> DefaultThreshold]

\* body of POST /rest/v1/attendance
record_attendance(student_id, confidence) ==
    [student_id |-> student_id, confidence |-> confidence]

\* GET /rest/v1/attendance_with_student?select=*&limit={limit}
get_attendance_records(limit) ==
    Rows(SubSeq(attendance, 1, Min(limit, Len(attendance))))

\* the row the store keeps for a new student (Prefer: return=representation)
StoredStudent(data) ==
    [id |-> NextStudentId, name |-> data.name, branch |-> data.branch,
     year |-> data.year, roll_number |-> data.roll_number, email |-> data.email]

\* roll numbers are unique in the store: a duplicate is answered with HTTP 409
RollTaken(roll_number) == \E s \in students : s.roll_number = roll_number

---------------------------------------------------------------------------
(* Results and responses *)

Error(message) == [status |-> "error", message |-> message]
Success(message) == [status |-> "success", message |-> message]

ClientErrorText == "ClientError"
AlreadyExistsResult == Success("Collection 'attendance_collection' already exists.")
CreatedResult == Success("Collection 'attendance_collection' created.")
NoFacesDetected == Error("No faces detected in the image.")
NoMatchingFaces == Error("No matching faces found in the collection.")
NoFacesInInput == Error("No faces detected in the input image.")

\* jsonify(body), status
Response(code, body) == [code |-> code, body |-> body]
\* jsonify(None) is the JSON value null, jsonify(rows) the array
Json(r) == IF r.none THEN [null |-> TRUE] ELSE [rows |-> r.rows]

MissingFieldResponse(field) ==
    Response(400, Error("Missing required field: " \o field))
\* a variant that leaves out the status code
CreateFailedResponse200 == Response(200, Error("Failed to create student"))
CreateFailedResponse == Response(500, Error("Failed to create student"))
MissingImageOrRollResponse == Response(400, Error("Missing image or roll_number"))
StudentNotFoundResponse == Response(404, Error("Student not found"))
MissingImageResponse == Response(400, Error("Missing image"))
\* student[0] raises when student is None or empty: Flask answers an
\* unhandled exception with 500
UnhandledException == Response(500, [status |-> "Internal Server Error"])

---------------------------------------------------------------------------
(* Threads *)

InitLoc == [student |-> None, result |-> Error("none"),
            match |-> [set |-> FALSE], written |-> <<>>]

\* a create_collection call starts: remember whether a call had completed
\* before, and whether one had returned success
BeginCall == [NoCall EXCEPT !.active = TRUE,
                            !.second = hist.completed # {},
                            !.afterSuccess = "success" \in hist.completed]

\* no enrol or search request issued in the latest step
NoSend == [op |-> "none"]

Call(name, ok) == [name |-> name, ok |-> ok]

\* no request returned in the latest step
NoReturn == [req |-> NoRequest, resp |-> NoResponse,
             calls |-> <<>>, loc |-> InitLoc, cc |-> NoCall]

InitHist == [completed |-> {}, created |-> 0, createOnExisting |-> FALSE,
             successResponses |-> 0, lostWrites |-> 0, nreq |-> 0]

\* The store and the face service outlive the process: at startup they hold
\* what earlier runs of the service left there (students created through
\* POST /api/students, faces enrolled through POST /api/register-face).
EarlierStudent(n) ==
    [id |-> "S" \o ToString(n), name |-> "v", branch |-> "v", year |-> "v",
     roll_number |-> "R" \o ToString(n), email |-> "v"]
EarlierFace(n) ==
    [face_id |-> "F" \o ToString(n), external_id |-> "S" \o ToString(n), resolved |-> TRUE]

EarlierRuns ==
    { [students |-> {}, collections |-> {}, faces |-> {}],
      [students |-> {EarlierStudent(1)}, collections |-> {}, faces |-> {}],
      [students |-> {EarlierStudent(1), EarlierStudent(2)},
       collections |-> {collection_id}, faces |-> {EarlierFace(1), EarlierFace(2)}] }

Init ==
    /\ \E earlier \in EarlierRuns :
         /\ students = earlier.students
         /\ collections = earlier.collections
         /\ faces = earlier.faces
    /\ attendance = <<>>
    /\ pc = [t \in Threads |-> IF t = Main THEN "cc_list" ELSE "idle"]
    /\ req = [t \in Threads |-> NoRequest]
    /\ loc = [t \in Threads |-> InitLoc]
    /\ cc = [t \in Threads |->
               IF t = Main THEN [NoCall EXCEPT !.active = TRUE] ELSE NoCall]
    /\ calls = [t \in Threads |-> <<>>]
    /\ sent = NoSend
    /\ returned = NoReturn
    /\ hist = InitHist

\* once app.run is serving, a request goes to the first worker that is free
Accepts(w) ==
    /\ pc[Main] = "serving"
    /\ pc[w] = "idle"
    /\ \A v \in Workers : v < w => pc[v] # "idle"
    /\ hist.nreq < MaxRequests

\* the handler returns `response`: the worker is free for the next request
Respond(w, request, response, trace, locals) ==
    /\ returned' = [req |-> request, resp |-> response,
                    calls |-> trace, loc |-> locals, cc |-> cc[w]]
    /\ pc' = [pc EXCEPT ![w] = "idle"]
    /\ req' = [req EXCEPT ![w] = NoRequest]
    /\ loc' = [loc EXCEPT ![w] = InitLoc]
    /\ cc' = [cc EXCEPT ![w] = NoCall]
    /\ calls' = [calls EXCEPT ![w] = <<>>]

\* supabase_request: None on HTTP status >= 400, else the parsed answer
supabase_request(ok, answer) == IF ok THEN answer ELSE None

---------------------------------------------------------------------------
(* GET /health, GET /api/students, GET /api/attendance *)

health_check(w) ==
    /\ Accepts(w)
    /\ Respond(w, [endpoint |-> "GET /health"],
               Response(200, [status |-> "healthy"]), <<>>, InitLoc)
    /\ hist' = [hist EXCEPT !.nreq = @ + 1]
    /\ sent' = NoSend
    /\ UNCHANGED <<students, attendance, collections, faces>>

api_get_students(w) ==
    /\ Accepts(w)
    /\ \E ok \in BOOLEAN :
         LET result == supabase_request(ok, get_students)
         IN  Respond(w, [endpoint |-> "GET /api/students"],
                     Response(200, Json(result)), <<Call("get_students", ok)>>,
                     InitLoc)
    /\ hist' = [hist EXCEPT !.nreq = @ + 1]
    /\ sent' = NoSend
    /\ UNCHANGED <<students, attendance, collections, faces>>

api_get_attendance(w) ==
    /\ Accepts(w)
    /\ \E args \in {<<>>} \cup { <<l>> : l \in Limits }, ok \in BOOLEAN :
         LET limit == IF args = <<>> THEN DefaultLimit ELSE args[1]
             result == supabase_request(ok, get_attendance_records(limit))
         IN  Respond(w, [endpoint |-> "GET /api/attendance", args |-> args],
                     Response(200, Json(result)),
                     <<Call("get_attendance_records", ok)>>, InitLoc)
    /\ hist' = [hist EXCEPT !.nreq = @ + 1]
    /\ sent' = NoSend
    /\ UNCHANGED <<students, attendance, collections, faces>>

---------------------------------------------------------------------------
(* POST /api/students *)

\* a variant that reports the last missing field
missing_field_last(data) ==
    LET idx == { i \in 1..Len(required_fields) : required_fields[i] \notin DOMAIN data }
    IN  IF idx = {} THEN ""
        ELSE required_fields[CHOOSE i \in idx : \A j \in idx : i >= j]

\* the loop over required_fields: the first field that is not in data, or ""
missing_field(data) ==
    LET idx == { i \in 1..Len(required_fields) : required_fields[i] \notin DOMAIN data }
    IN  IF idx = {} THEN ""
        ELSE required_fields[CHOOSE i \in idx : \A j \in idx : i <= j]

\* request bodies: all five fields, one field missing, or no field at all
CreateStudentFields ==
    { Range(required_fields) } \cup { Range(required_fields) \ {f} : f \in Range(required_fields) }
        \cup { {} }

CreateStudentPayloads ==
    UNION { { [f \in fields |-> IF f = "roll_number" THEN roll ELSE "v"] :
                roll \in IF fields = Range(required_fields) THEN RollNumbers ELSE {"R1"} } :
            fields \in CreateStudentFields }

api_create_student(w) ==
    /\ Accepts(w)
    /\ \E data \in CreateStudentPayloads :
         LET request == [endpoint |-> "POST /api/students", data |-> data] IN
         IF missing_field(data) # ""
         THEN /\ Respond(w, request, MissingFieldResponse(missing_field(data)), <<>>,
                      InitLoc)
              /\ UNCHANGED students
         ELSE \E ok \in BOOLEAN :
                LET body == create_student(data.name, data.branch, data.year,
                                           data.roll_number, data.email)
                    row == StoredStudent(body)
                    result == supabase_request(ok, Rows(<<row>>))
                IN  /\ ok => ~RollTaken(body.roll_number)
                    /\ students' = IF ok THEN students \cup {row} ELSE students
                    /\ Respond(w, request,
                               IF Truthy(result)
                               THEN Response(200, [status |-> "success", data |-> result.rows])
                               ELSE CreateFailedResponse,
                               <<Call("create_student", ok)>>, InitLoc)
    /\ hist' = [hist EXCEPT !.nreq = @ + 1]
    /\ sent' = NoSend
    /\ UNCHANGED <<attendance, collections, faces>>

---------------------------------------------------------------------------
(* create_collection(collection_id): list_collections, then create_collection *)

\* where a thread continues after create_collection returns
AfterCreateCollection(t) == IF t = Main THEN "serving" ELSE "index"

\* a variant that looks for the name among the keys of the response
collection_listed_keys(response) == collection_id \in DOMAIN response

\* collection_id in response['CollectionIds']
collection_listed(response) == collection_id \in response.CollectionIds

ReturnFromCreateCollection(t, result, listed, issued) ==
    /\ pc' = [pc EXCEPT ![t] = AfterCreateCollection(t)]
    /\ cc' = [cc EXCEPT ![t] = [@ EXCEPT !.listed = listed, !.issued = issued,
                                         !.done = TRUE, !.result = result]]

create_collection_list(t) ==
    /\ pc[t] = "cc_list"
    /\ \E ok \in BOOLEAN :
         LET response == [CollectionIds |-> collections]
             listed == IF collection_id \in collections THEN "present" ELSE "absent"
         IN  /\ calls' = [calls EXCEPT ![t] = Append(@, Call("list_collections", ok))]
             /\ IF ~ok
                THEN /\ ReturnFromCreateCollection(t, Error(ClientErrorText), "error", FALSE)
                     /\ hist' = [hist EXCEPT !.completed = @ \cup {"error"}]
                ELSE IF collection_listed(response)
                THEN /\ ReturnFromCreateCollection(t, AlreadyExistsResult, listed, FALSE)
                     /\ hist' = [hist EXCEPT !.completed = @ \cup {"success"}]
                ELSE /\ pc' = [pc EXCEPT ![t] = "cc_create"]
                     /\ cc' = [cc EXCEPT ![t].listed = listed]
                     /\ UNCHANGED hist
    /\ returned' = NoReturn
    /\ sent' = NoSend
    /\ UNCHANGED <<students, attendance, collections, faces, req, loc>>

create_collection_create(t) ==
    /\ pc[t] = "cc_create"
    /\ \E ok \in BOOLEAN :
         \* the service refuses to create a collection that exists
         /\ ok => collection_id \notin collections
         /\ calls' = [calls EXCEPT ![t] = Append(@, Call("create_collection", ok))]
         /\ collections' = IF ok THEN collections \cup {collection_id} ELSE collections
         /\ ReturnFromCreateCollection(t,
                IF ok THEN CreatedResult ELSE Error(ClientErrorText), cc[t].listed, TRUE)
         /\ hist' = [hist EXCEPT
                !.completed = @ \cup {IF ok THEN "success" ELSE "error"},
                !.created = IF ok THEN @ + 1 ELSE @,
                !.createOnExisting = @ \/ collection_id \in collections]
    /\ returned' = NoReturn
    /\ sent' = NoSend
    /\ UNCHANGED <<students, attendance, faces, req, loc>>

---------------------------------------------------------------------------
(* POST /api/register-face *)

\* a variant that tests only for None
student_missing_none_only(student) == student.none

\* not student or len(student) == 0
student_missing(student) == student.none \/ Len(student.rows) = 0

\* a variant that tags the face with the roll number
register_external_id_roll(student) == student.roll_number

\* external_id=student['id']
register_external_id(student) == student.id

\* ExternalImageId=external_id if external_id else "unknown"
ExternalImageId(external_id) == IF external_id = "" THEN "unknown" ELSE external_id

RegisterPayloads ==
    UNION { { [k \in keys |-> IF k = "image" THEN image ELSE roll] :
                image \in IF "image" \in keys /\ "roll_number" \in keys
                           THEN Images ELSE {<<"A", "A">>},
                roll \in IF "image" \in keys /\ "roll_number" \in keys
                          THEN RollNumbers ELSE {"R1"} } :
            keys \in SUBSET {"image", "roll_number"} }

api_register_face(w) ==
    /\ Accepts(w)
    /\ \E data \in RegisterPayloads :
         LET request == [endpoint |-> "POST /api/register-face", data |-> data] IN
         IF "image" \notin DOMAIN data \/ "roll_number" \notin DOMAIN data
         THEN Respond(w, request, MissingImageOrRollResponse, <<>>, InitLoc)
         ELSE \E ok \in BOOLEAN :
                LET student == supabase_request(ok, get_student_by_roll_number(data.roll_number))
                    trace == <<Call("get_student_by_roll_number", ok)>>
                IN  IF student_missing(student)
                    THEN Respond(w, request, StudentNotFoundResponse, trace,
                                 [InitLoc EXCEPT !.student = student])
                    ELSE IF ~Truthy(student)
                    THEN Respond(w, request, UnhandledException, trace,
                                 [InitLoc EXCEPT !.student = student])
                    ELSE /\ pc' = [pc EXCEPT ![w] = "cc_list"]
                         /\ req' = [req EXCEPT ![w] = request]
                         /\ calls' = [calls EXCEPT ![w] = trace]
                         /\ loc' = [loc EXCEPT ![w].student = student]
                         /\ cc' = [cc EXCEPT ![w] = BeginCall]
                         /\ returned' = NoReturn
    /\ hist' = [hist EXCEPT !.nreq = @ + 1]
    /\ sent' = NoSend
    /\ UNCHANGED <<students, attendance, collections, faces>>

\* face identifiers are assigned by the face service
NewFaces(n, external_id) ==
    { [face_id |-> "F" \o ToString(Cardinality(faces) + i),
       external_id |-> external_id,
       resolved |-> external_id \in StudentIds] : i \in 1..n }

\* index_faces_from_base64(collection_id, image_base64, external_id)
index_faces_from_base64(w) ==
    /\ pc[w] = "index"
    /\ \E ok \in BOOLEAN, n \in DetectedCounts :
         LET image_base64 == image_payload(req[w].data.image)
             external_id == ExternalImageId(register_external_id(loc[w].student.rows[1]))
             face_records == SetToSeq(NewFaces(n, external_id))
             result == IF ~ok THEN Error(ClientErrorText)
                       ELSE IF Len(face_records) > 0
                       THEN [status |-> "success",
                             face_ids |-> [i \in 1..Len(face_records) |-> face_records[i].face_id],
                             count |-> Len(face_records)]
                       ELSE NoFacesDetected
         IN  \* the service indexes only into a collection that exists
             /\ ok => collection_id \in collections
             /\ ~ok => n = 0
             /\ faces' = faces \cup Range(face_records)
             /\ sent' = [op |-> "index_faces", image |-> req[w].data.image,
                         image_base64 |-> image_base64, external_id |-> external_id]
             /\ Respond(w, req[w], Response(200, result),
                        Append(calls[w], Call("index_faces", ok)),
                        [loc[w] EXCEPT !.result = result])
    /\ UNCHANGED <<students, attendance, collections, hist>>

---------------------------------------------------------------------------
(* POST /api/recognize-face *)

\* a variant that takes every lookup result for a student
student_found_unchecked(student) == TRUE

\* student and len(student) > 0
student_found(student) == ~student.none /\ Len(student.rows) > 0

Descending(sims) == \A i \in 1..(Len(sims) - 1) : sims[i] > sims[i + 1]
Injective(f) == \A i, j \in DOMAIN f : f[i] = f[j] => i = j

\* what search_faces_by_image may answer: at most MaxFaces faces of the
\* collection, similarity at least the threshold, in descending order
FaceMatches ==
    UNION { { [i \in 1..n |-> [face_id |-> fs[i].face_id, similarity |-> sims[i],
                               external_id |-> fs[i].external_id]] :
                fs \in { f \in [1..n -> faces] : Injective(f) },
                sims \in { s \in [1..n -> { x \in Similarities : x >= DefaultThreshold }] :
                             Descending(s) } } :
            n \in 0..Min(MaxFaces, Cardinality(faces)) }

RecognizePayloads ==
    { [k \in {} |-> <<>>] } \cup { [k \in {"image"} |-> image] : image \in Images }

api_recognize_face(w) ==
    /\ Accepts(w)
    /\ \E data \in RecognizePayloads :
         LET request == [endpoint |-> "POST /api/recognize-face", data |-> data] IN
         IF "image" \notin DOMAIN data
         THEN /\ Respond(w, request, MissingImageResponse, <<>>, InitLoc)
              /\ sent' = NoSend
         ELSE \E outcome \in {"matches", "no face", "error"} :
              \E face_matches \in (IF outcome = "matches" THEN FaceMatches ELSE {<<>>}) :
                LET image_base64 == image_payload(data.image)
                    result == IF outcome = "error" THEN Error(ClientErrorText)
                              ELSE IF outcome = "no face" THEN NoFacesInInput
                              ELSE IF Len(face_matches) > 0
                              THEN [status |-> "success", matches |-> face_matches]
                              ELSE NoMatchingFaces
                    trace == <<Call("search_faces_by_image", outcome = "matches")>>
                    locals == [InitLoc EXCEPT !.result = result]
                IN  \* the service searches only a collection that exists
                    /\ outcome = "matches" => collection_id \in collections
                    /\ sent' = [op |-> "search_faces_by_image", image |-> data.image,
                                image_base64 |-> image_base64]
                    /\ IF result.status = "success" /\ Len(result.matches) > 0
                       THEN /\ pc' = [pc EXCEPT ![w] = "get_student"]
                            \* data['image'] is not read again
                            /\ req' = [req EXCEPT ![w] = [endpoint |-> request.endpoint]]
                            /\ calls' = [calls EXCEPT ![w] = trace]
                            /\ loc' = [loc EXCEPT ![w] = locals]
                            /\ returned' = NoReturn
                            /\ UNCHANGED cc
                       ELSE Respond(w, request, Response(200, result), trace, locals)
    /\ hist' = [hist EXCEPT !.nreq = @ + 1]
    /\ UNCHANGED <<students, attendance, collections, faces>>

recognize_get_student(w) ==
    /\ pc[w] = "get_student"
    /\ \E ok \in BOOLEAN :
         LET match == loc[w].result.matches[1]
             student_id == match.external_id
             student == supabase_request(ok, get_student_by_id(student_id))
             trace == Append(calls[w], Call("get_student_by_id", ok))
             locals == [loc[w] EXCEPT !.student = student, !.match = match]
         IN  IF student_found(student) /\ ~Truthy(student)
             THEN Respond(w, req[w], UnhandledException, trace, locals)
             ELSE IF student_found(student)
             THEN /\ pc' = [pc EXCEPT ![w] = "record"]
                  /\ calls' = [calls EXCEPT ![w] = trace]
                  /\ loc' = [loc EXCEPT ![w] = locals]
                  /\ returned' = NoReturn
                  /\ UNCHANGED <<req, cc>>
             ELSE Respond(w, req[w], Response(200, loc[w].result), trace, locals)
    /\ sent' = NoSend
    /\ UNCHANGED <<students, attendance, collections, faces, hist>>

recognize_record_attendance(w) ==
    /\ pc[w] = "record"
    /\ \E ok \in BOOLEAN :
         LET match == loc[w].match
             student_id == match.external_id
             student == loc[w].student.rows[1]
             data == record_attendance(student_id, match.similarity)
         IN  /\ attendance' = IF ok THEN Append(attendance, data) ELSE attendance
             /\ hist' = [hist EXCEPT !.successResponses = @ + 1,
                                     !.lostWrites = IF ok THEN @ ELSE @ + 1]
             /\ Respond(w, req[w],
                        Response(200, [status |-> "success", match |-> match,
                                       student |-> student]),
                        Append(calls[w], Call("record_attendance", ok)),
                        [loc[w] EXCEPT !.written = Append(@, data)])
    /\ sent' = NoSend
    /\ UNCHANGED <<students, collections, faces>>

---------------------------------------------------------------------------
Next ==
    \/ \E t \in Threads : create_collection_list(t)
    \/ \E t \in Threads : create_collection_create(t)
    \/ \E w \in Workers : health_check(w)
    \/ \E w \in Workers : api_get_students(w)
    \/ \E w \in Workers : api_create_student(w)
    \/ \E w \in Workers : api_register_face(w)
    \/ \E w \in Workers : index_faces_from_base64(w)
    \/ \E w \in Workers : api_recognize_face(w)
    \/ \E w \in Workers : recognize_get_student(w)
    \/ \E w \in Workers : recognize_record_attendance(w)
    \/ \E w \in Workers : api_get_attendance(w)

Spec == Init /\ [][Next]_vars

---------------------------------------------------------------------------
(* Properties *)

Register == "POST /api/register-face"
Recognize == "POST /api/recognize-face"
CreateStudent == "POST /api/students"

CallNames(trace) == { trace[i].name : i \in 1..Len(trace) }
FailedCalls(trace) == { trace[i].name : i \in { j \in 1..Len(trace) : ~trace[j].ok } }
StoreCalls == {"get_students", "get_student_by_id", "get_student_by_roll_number",
               "create_student", "record_attendance", "get_attendance_records"}

\* the request that returned in the latest step was a recognition that
\* answered success with a match and a student
RecognizedStudent ==
    /\ returned.req.endpoint = Recognize
    /\ returned.resp.code = 200
    /\ DOMAIN returned.resp.body = {"status", "match", "student"}

\* C1: a register-face request that carries image and roll_number and whose
\* store lookup by roll number returns no student (None or an empty list) is
\* answered 404, and index_faces is not called for it.
C1_UnknownRollIs404 ==
    ( /\ returned.req.endpoint = Register
      /\ {"image", "roll_number"} \subseteq DOMAIN returned.req.data
      /\ (returned.loc.student.none \/ Len(returned.loc.student.rows) = 0) )
    => /\ returned.resp = Response(404, Error("Student not found"))
       /\ "index_faces" \notin CallNames(returned.calls)
       /\ sent.op # "index_faces"

C1_Witness ==
    /\ returned.req.endpoint = Register
    /\ {"image", "roll_number"} \subseteq DOMAIN returned.req.data
    /\ ~returned.loc.student.none
    /\ Len(returned.loc.student.rows) = 0
    /\ returned.resp.code = 404

\* C2 as stated: a success response that embeds a match and a student has
\* produced one new attendance record for the top match, and the number of
\* attendance records equals the number of such responses.
C2_OneRecordPerSuccess ==
    /\ Len(attendance) = hist.successResponses
    /\ RecognizedStudent =>
         LET top == returned.loc.result.matches[1]
         IN  /\ Len(attendance) > 0
             /\ attendance[Len(attendance)] =
                  [student_id |-> top.external_id, confidence |-> top.similarity]

\* C2 amended: a success response that embeds a match and a student has
\* issued exactly one attendance write, with student_id the top match's
\* external identifier and confidence its similarity; the write adds that one
\* record when the store accepts it and none when the store fails, so the
\* records number the success responses less the failed writes.
C2_OneWritePerSuccess ==
    /\ Len(attendance) = hist.successResponses - hist.lostWrites
    /\ RecognizedStudent =>
         LET top == returned.loc.result.matches[1]
             row == [student_id |-> top.external_id, confidence |-> top.similarity]
         IN  /\ returned.resp.body.match = top
             /\ returned.resp.body.student.id = top.external_id
             /\ returned.loc.written = <<row>>
             /\ Len(returned.calls) = 3
             /\ returned.calls[3].name = "record_attendance"
             /\ returned.calls[3].ok =>
                  Len(attendance) > 0 /\ attendance[Len(attendance)] = row

C2_Witness ==
    /\ RecognizedStudent
    /\ ~returned.calls[3].ok
    /\ hist.successResponses = 2
    /\ Len(attendance) = 1

\* C3: a recognition whose search succeeds with at least one match and whose
\* student lookup returns no student answers with the search result as it
\* is, and writes no attendance record.
C3_UnknownStudentFallsThrough ==
    ( /\ returned.req.endpoint = Recognize
      /\ returned.loc.result.status = "success"
      /\ "get_student_by_id" \in CallNames(returned.calls)
      /\ (returned.loc.student.none \/ Len(returned.loc.student.rows) = 0) )
    => /\ returned.resp = Response(200, returned.loc.result)
       /\ "record_attendance" \notin CallNames(returned.calls)
       /\ returned.loc.written = <<>>

C3_Witness ==
    /\ returned.req.endpoint = Recognize
    /\ returned.loc.result.status = "success"
    /\ Len(returned.loc.result.matches) = 2
    /\ "get_student_by_id" \in CallNames(returned.calls)
    /\ returned.loc.student.none
    /\ returned.resp.body = returned.loc.result

\* C4 as stated: a student-creation payload with all five fields is answered
\* with success and an echo of the stored data; a payload that misses a field
\* is answered 400 naming a missing field, without a store request.
C4_CompletePayloadSucceeds ==
    returned.req.endpoint = CreateStudent =>
      IF Range(required_fields) \subseteq DOMAIN returned.req.data
      THEN /\ returned.resp.code = 200
           /\ returned.resp.body.status = "success"
           /\ \A f \in DOMAIN returned.req.data :
                returned.resp.body.data[1][f] = returned.req.data[f]
      ELSE /\ returned.calls = <<>>
           /\ \E f \in Range(required_fields) \ DOMAIN returned.req.data :
                returned.resp = Response(400, Error("Missing required field: " \o f))

\* C4 amended: a payload with all five fields makes one store request and is
\* answered with success and an echo of the stored row when the store accepts
\* it, and with 500 when the store fails; a payload that misses a field is
\* answered 400 naming the first missing field, without a store request.
C4_CreateStudentResponses ==
    returned.req.endpoint = CreateStudent =>
      LET data == returned.req.data
          missing == { i \in 1..5 : required_fields[i] \notin DOMAIN data }
      IN  IF missing = {}
          THEN /\ CallNames(returned.calls) = {"create_student"}
               /\ Len(returned.calls) = 1
               /\ IF returned.calls[1].ok
                  THEN /\ returned.resp.code = 200
                       /\ returned.resp.body.status = "success"
                       /\ Len(returned.resp.body.data) = 1
                       /\ \A f \in DOMAIN data : returned.resp.body.data[1][f] = data[f]
                       /\ returned.resp.body.data[1] \in students
                  ELSE returned.resp = Response(500, Error("Failed to create student"))
          ELSE /\ returned.calls = <<>>
               /\ \E i \in missing :
                    /\ \A j \in missing : i <= j
                    /\ returned.resp =
                         Response(400, Error("Missing required field: " \o required_fields[i]))

C4_Witness ==
    /\ returned.req.endpoint = CreateStudent
    /\ Range(required_fields) \subseteq DOMAIN returned.req.data
    /\ returned.resp.code = 500

\* C5 as stated: the payload passed to the face service is the content after
\* the first comma when the image string has a comma, and the whole string
\* otherwise; stripping a stripped payload returns it unchanged.
C5_PayloadAfterFirstComma ==
    sent.op \in {"index_faces", "search_faces_by_image"} =>
      /\ sent.image_base64 =
           IF HasComma(sent.image)
           THEN SubSeq(sent.image, FirstComma(sent.image) + 1, Len(sent.image))
           ELSE sent.image
      /\ image_payload(sent.image_base64) = sent.image_base64

\* C6 as stated: a create_collection call made after another one has
\* completed reports "already exists" with a success signal and issues no
\* creation request.
C6_SecondCallAlreadyExists ==
    \A t \in Threads :
      (cc[t].done /\ cc[t].second) =>
        cc[t].result = AlreadyExistsResult /\ ~cc[t].issued

\* C6 amended: a create_collection call made after one that returned success
\* issues no creation request; it reports "already exists" with a success
\* signal unless its own list request fails, and then it returns the error.
C6_CallAfterSuccess ==
    \A c \in { cc[t] : t \in Threads } \cup {returned.cc} :
      (c.done /\ c.afterSuccess) =>
        /\ ~c.issued
        /\ \/ c.listed = "present" /\ c.result = AlreadyExistsResult
           \/ c.listed = "error" /\ c.result = Error(ClientErrorText)

C6_Witness ==
    \E t \in Workers :
      /\ cc[t].done
      /\ cc[t].afterSuccess
      /\ cc[Main].result = CreatedResult
      /\ cc[t].result = AlreadyExistsResult

\* C7: every enrolled face carries the identifier of a student that was in
\* the store when the face was enrolled, and every attendance record names a
\* student that was in the store when the record was written.
C7_ReferencesResolve ==
    /\ \A f \in faces : f.resolved /\ f.external_id \in StudentIds
    /\ sent.op = "index_faces" => sent.external_id \in StudentIds
    /\ \A i \in 1..Len(attendance) : attendance[i].student_id \in StudentIds
    /\ \A i \in 1..Len(returned.loc.written) :
         returned.loc.written[i].student_id \in StudentIds

C7_Witness ==
    /\ \E f \in faces : f.face_id = "F3"
    /\ Len(attendance) = 1
    /\ RecognizedStudent

\* C8 as stated: a request whose store request failed is answered 500, and a
\* failure result of the face service is the response as it is.
C8_StoreFailureIs500 ==
    /\ FailedCalls(returned.calls) \cap StoreCalls # {} => returned.resp.code = 500
    /\ FailedCalls(returned.calls) \cap {"index_faces", "search_faces_by_image"} # {} =>
         returned.resp.body = returned.loc.result /\ returned.resp.body.status = "error"

\* C8 amended: a store failure is answered 500 by POST /api/students only;
\* GET /api/students and GET /api/attendance answer 200 with null,
\* register-face answers 404, recognize-face answers 200 with the search
\* result (failed lookup) or with success (failed attendance write).  The
\* result of index_faces and a failed search result are passed through as
\* they are; a failure of create_collection is not reported.
C8_FailureResponses ==
    LET failed == FailedCalls(returned.calls)
        ep == returned.req.endpoint
    IN  /\ "create_student" \in failed =>
             returned.resp = Response(500, Error("Failed to create student"))
        /\ "get_students" \in failed => returned.resp = Response(200, [null |-> TRUE])
        /\ "get_attendance_records" \in failed =>
             returned.resp = Response(200, [null |-> TRUE])
        /\ "get_student_by_roll_number" \in failed =>
             returned.resp = Response(404, Error("Student not found"))
        /\ "get_student_by_id" \in failed =>
             returned.resp = Response(200, returned.loc.result)
        /\ "record_attendance" \in failed =>
             returned.resp.code = 200 /\ returned.resp.body.status = "success"
        /\ "index_faces" \in CallNames(returned.calls) =>
             returned.resp = Response(200, returned.loc.result)
        /\ "index_faces" \in failed => returned.resp.body = Error(ClientErrorText)
        /\ "search_faces_by_image" \in failed =>
             /\ returned.resp = Response(200, returned.loc.result)
             /\ returned.resp.body.status = "error"

C8_Witness ==
    /\ returned.req.endpoint = "GET /api/students"
    /\ "get_students" \in FailedCalls(returned.calls)
    /\ returned.resp.code = 200

\* C9 as stated: no request makes more than 3 outbound calls.
C9_AtMostThreeCalls ==
    /\ Len(returned.calls) <= 3
    /\ \A w \in Workers : Len(calls[w]) <= 3

\* C9 amended: no request makes more than 4 outbound calls, and only a
\* register-face request whose list request reported the collection absent
\* makes 4 (lookup, list, create, index); every other request makes at most 3.
C9_AtMostFourCalls ==
    /\ \A w \in Workers : Len(calls[w]) <= 3
    /\ Len(returned.calls) <= 4
    /\ Len(returned.calls) = 4 =>
         /\ returned.req.endpoint = Register
         /\ returned.cc.listed = "absent"
         /\ returned.cc.issued
    /\ returned.req.endpoint = Recognize => Len(returned.calls) <= 3
    /\ returned.req.endpoint \in {CreateStudent, "GET /api/students", "GET /api/attendance"}
         => Len(returned.calls) <= 1
    /\ returned.req.endpoint = "GET /health" => Len(returned.calls) = 0

C9_Witness ==
    /\ returned.req.endpoint = Register
    /\ Len(returned.calls) = 4
    /\ returned.calls[3].name = "create_collection"
    /\ returned.calls[4].name = "index_faces"

\* C10 as stated: no creation request is sent for a collection that exists.
C10_NoCreateOnExisting == ~hist.createOnExisting

\* C10 amended: the collection is created at most once, and a thread sends a
\* creation request only after its own list request reported the collection
\* absent; another thread may have created the collection in between, and
\* then the request is refused and the error is dropped.
C10_CreateAfterOwnList ==
    /\ hist.created <= 1
    /\ Cardinality(collections) <= 1
    /\ \A c \in { cc[t] : t \in Threads } \cup {returned.cc} :
         c.issued => c.listed = "absent"
    /\ \A t \in Threads : pc[t] = "cc_create" => cc[t].listed = "absent"

C10_Witness ==
    /\ hist.createOnExisting
    /\ hist.created = 1
    /\ \E t \in Workers : cc[t].done /\ cc[t].issued /\ cc[t].result = Error(ClientErrorText)

====
